---- MODULE Spec2Model ----
(***************************************************************************)
(* Texture2DArray (OpenGL back end): GPU object lifecycle, per-layer       *)
(* upload, asynchronous load and device loss / reset recovery.             *)
(*                                                                         *)
(* The object and the part of Graphics it talks to are one record, `tex`,  *)
(* whose fields keep the member names of the C++ class.  Every member      *)
(* function is an operator from a record to a record (plus the value it    *)
(* returns), so that a function calling another one is the composition of  *)
(* the two operators, exactly as in the source.  While an operator runs,   *)
(* the record also carries what the call sends out of the object: the GPU  *)
(* and collaborator calls it issues (calls), the messages it logs (log),   *)
(* whether it indexed past the end of a vector (ub) and, for EndLoad, what *)
(* each per-layer upload returned (uploads).  An operation of the state    *)
(* machine stores the object without these outputs.                        *)
(***************************************************************************)
EXTENDS Integers, Sequences, FiniteSets, TLC

VARIABLES tex, mip

vars == <<tex, mip>>

(***************************************************************************)
(* Bounds of the model.                                                    *)
(***************************************************************************)
\* largest layer count / layer index handed to an operation
MaxLayers == 2
\* largest number of layers a descriptor names
MaxLoadLayers == 3
\* largest entry of the quality table mipsToSkip_[] used by the operations
MaxSkip == 1

(***************************************************************************)
(* Value domains.                                                          *)
(***************************************************************************)
\* <<width, height>> arguments of SetSize, legal and illegal
SizeArgs == {<<4, 4>>, <<8, 8>>, <<0, 4>>, <<4, -4>>}
\* TextureUsage
Usages == {"STATIC", "RENDERTARGET", "DEPTHSTENCIL"}
\* GPU pixel formats are "ALPHA", "LUMINANCE", "LUMINANCE_ALPHA", "RGB",
\* "RGBA" and "DXT1"; "NONE" is the 0 of a texture that was never sized
CompressedFormats == {"DXT1"}
\* the texture units of Graphics the model follows: unit 0, used for updates
Units == {0}

Max(a, b) == IF a >= b THEN a ELSE b
Min(a, b) == IF a <= b THEN a ELSE b

RECURSIVE Pow2(_)
Pow2(n) == IF n <= 0 THEN 1 ELSE 2 * Pow2(n - 1)

\* x >> n on a non-negative int
Shr(x, n) == x \div Pow2(n)

(***************************************************************************)
(* Images (external decoder objects, seen through their accessors).        *)
(***************************************************************************)
NullImage == [null |-> TRUE, cmp |-> FALSE, w |-> 0, h |-> 0, comps |-> 0, levels |-> 0, cf |-> "NONE"]
RawImage(w, h, c) == [null |-> FALSE, cmp |-> FALSE, w |-> w, h |-> h, comps |-> c, levels |-> 0, cf |-> "NONE"]
CmpImage(w, h, n, cf) == [null |-> FALSE, cmp |-> TRUE, w |-> w, h |-> h, comps |-> 0, levels |-> n, cf |-> cf]

RawImages == {RawImage(4, 4, 4), RawImage(8, 8, 4), RawImage(4, 4, 1)}
CmpImages == {CmpImage(8, 8, 4, "DXT1"), CmpImage(8, 8, 2, "DXT1")}
Images == RawImages \cup CmpImages \cup {NullImage}

\* Image::GetNextLevel: each edge halved, never below 1
NextLevelDim(d) == Max(d \div 2, 1)

\* Image::GetCompressedLevel(i): edge of stored level i
CompressedLevelDim(d, i) == Max(Shr(d, i), 1)

\* CompressedLevel rows_ * rowSize_ for a 4x4-block format with 8-byte blocks
CompressedLevelSize(w, h) == ((h + 3) \div 4) * (((w + 3) \div 4) * 8)

\* Graphics::GetFormat(CompressedFormat): 0 ("NONE") when the hardware lacks it
Graphics_GetFormat(cf) == IF cf = "DXT1" THEN "DXT1" ELSE "NONE"

(***************************************************************************)
(* Bookkeeping of one operation: GPU calls issued and messages logged.     *)
(***************************************************************************)
GL(name, layer, level) == <<name, layer, level>>
Call(t, c) == [t EXCEPT !.calls = @ \cup {c}]
Log(t, msg) == [t EXCEPT !.log = @ \cup {msg}]
Ret(t, r) == [t |-> t, ret |-> r]

\* the calls of an operation that reach the GPU
GLNames == {"glGenTextures", "glDeleteTextures", "glBindTexture", "glTexImage3D", "glTexSubImage3D",
            "glCompressedTexImage3D", "glCompressedTexSubImage3D", "glGetTexImage",
            "glGetCompressedTexImage", "glTexParameteri"}
GPUCalls(t) == {c \in t.calls : c[1] \in GLNames}

\* the object without the outputs of the operation that produced it
Obj(t) == [t EXCEPT !.calls = {}, !.log = {}, !.ub = FALSE, !.uploads = <<>>]

(***************************************************************************)
(* Graphics (external collaborator).                                       *)
(***************************************************************************)
\* Graphics::SetTextureForUpdate: bind to unit 0
Graphics_SetTextureForUpdate(t) ==
    Call([t EXCEPT !.textures_ = @ \cup {0}], GL("glBindTexture", 0, 1))

\* Graphics::SetTexture(index, 0): leave the unit with no texture
Graphics_SetTextureNull(t, index) ==
    IF index \in t.textures_
    THEN Call([t EXCEPT !.textures_ = @ \ {index}], GL("glBindTexture", index, 0))
    ELSE t

\* Texture::IsCompressed
IsCompressed(t) == t.format_ \in CompressedFormats

\* Texture::GetLevelWidth / GetLevelHeight
GetLevelDim(t, d, level) == IF level > t.levels_ THEN 0 ELSE Max(Shr(d, level), 1)

\* Texture::SetNumLevels
SetNumLevels(t, levels) ==
    [t EXCEPT !.requestedLevels_ = IF t.usage_ = "DEPTHSTENCIL" THEN 1 ELSE levels]

(***************************************************************************)
(* Texture2DArray::Release                                                 *)
(***************************************************************************)
\* variant: the handle is cleared only where it was deleted
Release_KeepsLostHandle(t) ==
    IF t.name_ = 0 THEN t
    ELSE IF ~t.graphics_ THEN t
    ELSE IF t.deviceLost THEN t
    ELSE LET a == Call([t EXCEPT !.textures_ = {}], GL("glDeleteTextures", 0, 0))
             b == IF a.renderSurface_ THEN Call(a, GL("RenderSurface::Release", 0, 0)) ELSE a
         IN [b EXCEPT !.name_ = 0, !.stored = {}]

Release(t) ==
    IF t.name_ = 0 THEN t
    ELSE IF ~t.graphics_ THEN t
    ELSE LET a == IF ~t.deviceLost
                  THEN Call([t EXCEPT !.textures_ = {}], GL("glDeleteTextures", 0, 0))
                  ELSE t
             b == IF a.renderSurface_ THEN Call(a, GL("RenderSurface::Release", 0, 0)) ELSE a
         IN [b EXCEPT !.name_ = 0, !.stored = {}]

(***************************************************************************)
(* Texture2DArray::SetLayers                                               *)
(***************************************************************************)
SetLayers(t, layers) == [Release(t) EXCEPT !.layers_ = layers]

(***************************************************************************)
(* Texture2DArray::Create, in the build without GL_ES_VERSION_2_0.  glErr  *)
(* is what glGetError reports after the initial glTexImage3D.              *)
(***************************************************************************)
RECURSIVE CountLevels(_)
CountLevels(maxSize) == IF maxSize = 0 THEN 0 ELSE 1 + CountLevels(maxSize \div 2)

\* variant: without the `if (graphics_->IsDeviceLost())` return
Create_NoLostTest(t, glErr) ==
    LET r == Release(t) IN
    IF ~r.graphics_ \/ r.width_ = 0 \/ r.height_ = 0 \/ r.layers_ = 0 THEN Ret(r, FALSE)
    ELSE LET a == Graphics_SetTextureForUpdate(Call([r EXCEPT !.name_ = 1], GL("glGenTextures", 0, 0)))
             success == IsCompressed(a) \/ ~glErr
             b == IF ~IsCompressed(a) THEN Call(a, GL("glTexImage3D", 0, 0)) ELSE a
             c == IF ~success THEN Log(b, "Failed to create texture array") ELSE b
             d == [c EXCEPT !.levels_ = IF c.requestedLevels_ # 0 THEN c.requestedLevels_
                                        ELSE CountLevels(Max(c.width_, c.height_))]
             e == Call(d, GL("glTexParameteri", 0, 0))
         IN Ret(Graphics_SetTextureNull(e, 0), success)

\* variant: the level count is computed from width_ alone
Create_LevelsFromWidth(t, glErr) ==
    LET r == Release(t) IN
    IF ~r.graphics_ \/ r.width_ = 0 \/ r.height_ = 0 \/ r.layers_ = 0 THEN Ret(r, FALSE)
    ELSE IF r.deviceLost THEN Ret(Log(r, "Texture array creation while device is lost"), TRUE)
    ELSE LET a == Graphics_SetTextureForUpdate(Call([r EXCEPT !.name_ = 1], GL("glGenTextures", 0, 0)))
             success == IsCompressed(a) \/ ~glErr
             b == IF ~IsCompressed(a) THEN Call(a, GL("glTexImage3D", 0, 0)) ELSE a
             c == IF ~success THEN Log(b, "Failed to create texture array") ELSE b
             d == [c EXCEPT !.levels_ = IF c.requestedLevels_ # 0 THEN c.requestedLevels_
                                        ELSE CountLevels(c.width_)]
             e == Call(d, GL("glTexParameteri", 0, 0))
         IN Ret(Graphics_SetTextureNull(e, 0), success)

Create(t, glErr) ==
    LET r == Release(t) IN
    IF ~r.graphics_ \/ r.width_ = 0 \/ r.height_ = 0 \/ r.layers_ = 0 THEN Ret(r, FALSE)
    ELSE IF r.deviceLost THEN Ret(Log(r, "Texture array creation while device is lost"), TRUE)
    ELSE LET a == Graphics_SetTextureForUpdate(Call([r EXCEPT !.name_ = 1], GL("glGenTextures", 0, 0)))
             success == IsCompressed(a) \/ ~glErr
             b == IF ~IsCompressed(a) THEN Call(a, GL("glTexImage3D", 0, 0)) ELSE a
             c == IF ~success THEN Log(b, "Failed to create texture array") ELSE b
             d == [c EXCEPT !.levels_ = IF c.requestedLevels_ # 0 THEN c.requestedLevels_
                                        ELSE CountLevels(Max(c.width_, c.height_))]
             e == Call(d, GL("glTexParameteri", 0, 0))
         IN Ret(Graphics_SetTextureNull(e, 0), success)

(***************************************************************************)
(* Texture2DArray::SetSize                                                 *)
(***************************************************************************)
\* variant: layers_ = layers without the `if (layers)`
SetSize_AssignsZeroLayers(t, layers, width, height, format, usage, glErr) ==
    IF width <= 0 \/ height <= 0 THEN Ret(Log(t, "Zero or negative texture array size"), FALSE)
    ELSE IF usage = "DEPTHSTENCIL"
    THEN Ret(Log(t, "Depth-stencil usage not supported for texture arrays"), FALSE)
    ELSE LET a == [t EXCEPT !.renderSurface_ = (usage = "RENDERTARGET"),
                            !.usage_ = usage,
                            !.requestedLevels_ = IF usage = "RENDERTARGET" THEN 1 ELSE @,
                            !.width_ = width,
                            !.height_ = height,
                            !.format_ = format,
                            !.layers_ = layers]
             b == [a EXCEPT !.layerMemoryUse_ = [i \in 1..a.layers_ |-> 0]]
         IN Create(b, glErr)

\* variant: the render surface is reset before the arguments are validated
SetSize_ResetsSurfaceFirst(t, layers, width, height, format, usage, glErr) ==
    LET s == [t EXCEPT !.renderSurface_ = FALSE, !.usage_ = "STATIC"] IN
    IF width <= 0 \/ height <= 0 THEN Ret(Log(s, "Zero or negative texture array size"), FALSE)
    ELSE IF usage = "DEPTHSTENCIL"
    THEN Ret(Log(s, "Depth-stencil usage not supported for texture arrays"), FALSE)
    ELSE LET a == [s EXCEPT !.renderSurface_ = (usage = "RENDERTARGET"),
                            !.usage_ = usage,
                            !.requestedLevels_ = IF usage = "RENDERTARGET" THEN 1 ELSE @,
                            !.width_ = width,
                            !.height_ = height,
                            !.format_ = format,
                            !.layers_ = IF layers # 0 THEN layers ELSE @]
             b == [a EXCEPT !.layerMemoryUse_ = [i \in 1..a.layers_ |-> 0]]
         IN Create(b, glErr)

SetSize(t, layers, width, height, format, usage, glErr) ==
    IF width <= 0 \/ height <= 0 THEN Ret(Log(t, "Zero or negative texture array size"), FALSE)
    ELSE IF usage = "DEPTHSTENCIL"
    THEN Ret(Log(t, "Depth-stencil usage not supported for texture arrays"), FALSE)
    ELSE LET a == [t EXCEPT !.renderSurface_ = (usage = "RENDERTARGET"),
                            !.usage_ = usage,
                            !.requestedLevels_ = IF usage = "RENDERTARGET" THEN 1 ELSE @,
                            !.width_ = width,
                            !.height_ = height,
                            !.format_ = format,
                            !.layers_ = IF layers # 0 THEN layers ELSE @]
             b == [a EXCEPT !.layerMemoryUse_ = [i \in 1..a.layers_ |-> 0]]
         IN Create(b, glErr)

(***************************************************************************)
(* Texture2DArray::SetData(layer, level, x, y, width, height, data).       *)
(* data is TRUE for a non-null pointer.  `stored` is the content of the    *)
(* GPU object: the layers whose base level (level 0) holds uploaded        *)
(* texels.                                                                 *)
(***************************************************************************)
\* x & ~3
AlignDown4(x) == x - (x % 4)

\* variant: returns without graphics_->SetTexture(0, 0)
SetDataLevel_StaysBound(t, layer, level, x0, y0, width, height, data) ==
    IF t.name_ = 0 \/ ~t.graphics_
    THEN Ret(Log(t, "Texture array not created, can not set data"), FALSE)
    ELSE IF ~data THEN Ret(Log(t, "Null source for setting data"), FALSE)
    ELSE IF layer >= t.layers_ THEN Ret(Log(t, "Illegal layer for setting data"), FALSE)
    ELSE IF level >= t.levels_ THEN Ret(Log(t, "Illegal mip level for setting data"), FALSE)
    ELSE IF t.deviceLost
    THEN Ret(Log([t EXCEPT !.dataPending_ = TRUE], "Texture array data assignment while device is lost"), TRUE)
    ELSE LET x == IF IsCompressed(t) THEN AlignDown4(x0) ELSE x0
             y == IF IsCompressed(t) THEN AlignDown4(y0) ELSE y0
             levelWidth == GetLevelDim(t, t.width_, level)
             levelHeight == GetLevelDim(t, t.height_, level)
         IN IF x < 0 \/ x + width > levelWidth \/ y < 0 \/ y + height > levelHeight
               \/ width <= 0 \/ height <= 0
            THEN Ret(Log(t, "Illegal dimensions for setting data"), FALSE)
            ELSE LET a == Graphics_SetTextureForUpdate(t)
                     wholeLevel == x = 0 /\ y = 0 /\ width = levelWidth /\ height = levelHeight
                                   /\ layer = 0
                     image3D == IF IsCompressed(a) THEN "glCompressedTexImage3D" ELSE "glTexImage3D"
                     subImage3D == IF IsCompressed(a) THEN "glCompressedTexSubImage3D"
                                   ELSE "glTexSubImage3D"
                     \* whole-level allocation: storage of every layer of this level is replaced
                     b == IF wholeLevel
                          THEN Call([a EXCEPT !.stored = IF level = 0 THEN {} ELSE @],
                                    GL(image3D, layer, level))
                          ELSE a
                     c == Call([b EXCEPT !.stored = IF level = 0 THEN @ \cup {layer} ELSE @],
                               GL(subImage3D, layer, level))
                 IN Ret(c, TRUE)

\* variant: wholeLevel without `&& layer == 0`
SetDataLevel_AnyLayerWhole(t, layer, level, x0, y0, width, height, data) ==
    IF t.name_ = 0 \/ ~t.graphics_
    THEN Ret(Log(t, "Texture array not created, can not set data"), FALSE)
    ELSE IF ~data THEN Ret(Log(t, "Null source for setting data"), FALSE)
    ELSE IF layer >= t.layers_ THEN Ret(Log(t, "Illegal layer for setting data"), FALSE)
    ELSE IF level >= t.levels_ THEN Ret(Log(t, "Illegal mip level for setting data"), FALSE)
    ELSE IF t.deviceLost
    THEN Ret(Log([t EXCEPT !.dataPending_ = TRUE], "Texture array data assignment while device is lost"), TRUE)
    ELSE LET x == IF IsCompressed(t) THEN AlignDown4(x0) ELSE x0
             y == IF IsCompressed(t) THEN AlignDown4(y0) ELSE y0
             levelWidth == GetLevelDim(t, t.width_, level)
             levelHeight == GetLevelDim(t, t.height_, level)
         IN IF x < 0 \/ x + width > levelWidth \/ y < 0 \/ y + height > levelHeight
               \/ width <= 0 \/ height <= 0
            THEN Ret(Log(t, "Illegal dimensions for setting data"), FALSE)
            ELSE LET a == Graphics_SetTextureForUpdate(t)
                     wholeLevel == x = 0 /\ y = 0 /\ width = levelWidth /\ height = levelHeight
                     image3D == IF IsCompressed(a) THEN "glCompressedTexImage3D" ELSE "glTexImage3D"
                     subImage3D == IF IsCompressed(a) THEN "glCompressedTexSubImage3D"
                                   ELSE "glTexSubImage3D"
                     \* whole-level allocation: storage of every layer of this level is replaced
                     b == IF wholeLevel
                          THEN Call([a EXCEPT !.stored = IF level = 0 THEN {} ELSE @],
                                    GL(image3D, layer, level))
                          ELSE a
                     c == Call([b EXCEPT !.stored = IF level = 0 THEN @ \cup {layer} ELSE @],
                               GL(subImage3D, layer, level))
                 IN Ret(Graphics_SetTextureNull(c, 0), TRUE)

SetDataLevel(t, layer, level, x0, y0, width, height, data) ==
    IF t.name_ = 0 \/ ~t.graphics_
    THEN Ret(Log(t, "Texture array not created, can not set data"), FALSE)
    ELSE IF ~data THEN Ret(Log(t, "Null source for setting data"), FALSE)
    ELSE IF layer >= t.layers_ THEN Ret(Log(t, "Illegal layer for setting data"), FALSE)
    ELSE IF level >= t.levels_ THEN Ret(Log(t, "Illegal mip level for setting data"), FALSE)
    ELSE IF t.deviceLost
    THEN Ret(Log([t EXCEPT !.dataPending_ = TRUE], "Texture array data assignment while device is lost"), TRUE)
    ELSE LET x == IF IsCompressed(t) THEN AlignDown4(x0) ELSE x0
             y == IF IsCompressed(t) THEN AlignDown4(y0) ELSE y0
             levelWidth == GetLevelDim(t, t.width_, level)
             levelHeight == GetLevelDim(t, t.height_, level)
         IN IF x < 0 \/ x + width > levelWidth \/ y < 0 \/ y + height > levelHeight
               \/ width <= 0 \/ height <= 0
            THEN Ret(Log(t, "Illegal dimensions for setting data"), FALSE)
            ELSE LET a == Graphics_SetTextureForUpdate(t)
                     wholeLevel == x = 0 /\ y = 0 /\ width = levelWidth /\ height = levelHeight
                                   /\ layer = 0
                     image3D == IF IsCompressed(a) THEN "glCompressedTexImage3D" ELSE "glTexImage3D"
                     subImage3D == IF IsCompressed(a) THEN "glCompressedTexSubImage3D"
                                   ELSE "glTexSubImage3D"
                     \* whole-level allocation: storage of every layer of this level is replaced
                     b == IF wholeLevel
                          THEN Call([a EXCEPT !.stored = IF level = 0 THEN {} ELSE @],
                                    GL(image3D, layer, level))
                          ELSE a
                     c == Call([b EXCEPT !.stored = IF level = 0 THEN @ \cup {layer} ELSE @],
                               GL(subImage3D, layer, level))
                 IN Ret(Graphics_SetTextureNull(c, 0), TRUE)

(***************************************************************************)
(* Texture2DArray::SetData(layer, image, useAlpha).                        *)
(* skip is mipsToSkip_[quality]; glErr is handed to Create.                *)
(***************************************************************************)
\* uncompressed path: the component count -> format switch
ComponentsFormat(components, useAlpha) ==
    CASE components = 1 -> IF useAlpha THEN "ALPHA" ELSE "LUMINANCE"
      [] components = 2 -> "LUMINANCE_ALPHA"
      [] components = 3 -> "RGB"
      [] components = 4 -> "RGBA"

\* uncompressed path: "Discard unnecessary mip levels", i GetNextLevel calls
RECURSIVE DiscardLevels(_, _)
DiscardLevels(d, i) == IF i = 0 THEN d ELSE DiscardLevels(NextLevelDim(d), i - 1)

\* compressed path: the clamp loop of mipsToSkip
RECURSIVE ClampSkip(_, _, _)
ClampSkip(mipsToSkip, width, height) ==
    IF mipsToSkip # 0 /\ (width \div Pow2(mipsToSkip) < 4 \/ height \div Pow2(mipsToSkip) < 4)
    THEN ClampSkip(mipsToSkip - 1, width, height)
    ELSE mipsToSkip

\* variant: without `if (mipsToSkip >= levels) mipsToSkip = levels - 1`
EffectiveSkip_NoLevelClamp(width, height, levels, skip) ==
    ClampSkip(skip, width, height)

\* compressed path: the mip levels skipped for a width x height image with
\* `levels` stored levels when the quality table asks for `skip`
EffectiveSkip(width, height, levels, skip) ==
    ClampSkip(IF skip >= levels THEN levels - 1 ELSE skip, width, height)

\* uncompressed path: the per-level upload loop, from level i on
RECURSIVE UploadRawLevels(_, _, _, _, _, _, _)
UploadRawLevels(t, layer, i, levelWidth, levelHeight, components, memoryUse) ==
    IF i >= t.levels_ THEN [t |-> t, memoryUse |-> memoryUse]
    ELSE UploadRawLevels(SetDataLevel(t, layer, i, 0, 0, levelWidth, levelHeight, TRUE).t,
                         layer, i + 1, NextLevelDim(levelWidth), NextLevelDim(levelHeight),
                         components, memoryUse + levelWidth * levelHeight * components)

\* compressed path: the per-level upload loop, from level i on
RECURSIVE UploadCmpLevels(_, _, _, _, _, _, _)
UploadCmpLevels(t, layer, i, image, mipsToSkip, needDecompress, memoryUse) ==
    IF ~(i < t.levels_ /\ i < image.levels - mipsToSkip) THEN [t |-> t, memoryUse |-> memoryUse]
    ELSE LET w == CompressedLevelDim(image.w, i + mipsToSkip)
             h == CompressedLevelDim(image.h, i + mipsToSkip)
         IN UploadCmpLevels(SetDataLevel(t, layer, i, 0, 0, w, h, TRUE).t,
                            layer, i + 1, image, mipsToSkip, needDecompress,
                            memoryUse + (IF needDecompress THEN w * h * 4
                                         ELSE CompressedLevelSize(w, h)))

RECURSIVE SumTo(_, _)
SumTo(seq, n) == IF n = 0 THEN 0 ELSE seq[n] + SumTo(seq, n - 1)

\* the tail of SetData, u the object and memoryUse after the upload loop:
\* layerMemoryUse_[layer] = memoryUse, and the total
\* (less the constant overhead of the object and of the vector) handed to
\* Resource::SetMemoryUse.  An index past the end of the vector is
\* undefined behaviour: the write lands outside the vector and the sum
\* reads what lies behind it; ub records that this happened.
MemoryTotal(a) ==
    Call(a, GL("SetMemoryUse", SumTo(a.layerMemoryUse_, Min(a.layers_, Len(a.layerMemoryUse_))), 0))

StoreMemoryUse(u, layer) ==
    MemoryTotal([u.t EXCEPT !.layerMemoryUse_ = IF layer < Len(@)
                                                THEN [@ EXCEPT ![layer + 1] = u.memoryUse] ELSE @,
                            !.ub = @ \/ Len(u.t.layerMemoryUse_) < u.t.layers_])

\* uncompressed path, up to the format switch: the component count after
\* the conversion to RGBA, the first level kept and the format
NegotiateRaw(t, image, useAlpha, skip) ==
    LET convert == t.gl3 /\ ((image.comps = 1 /\ ~useAlpha) \/ image.comps = 2)
        components == IF convert THEN 4 ELSE image.comps
    IN [components |-> components,
        skipped |-> skip,
        width |-> DiscardLevels(image.w, skip),
        height |-> DiscardLevels(image.h, skip),
        format |-> ComponentsFormat(components, useAlpha)]

\* compressed path, up to width /= (1 << mipsToSkip)
NegotiateCmp(image, skip) ==
    LET needDecompress == Graphics_GetFormat(image.cf) = "NONE"
        mipsToSkip == EffectiveSkip(image.w, image.h, image.levels, skip)
    IN [needDecompress |-> needDecompress,
        format |-> IF needDecompress THEN "RGBA" ELSE Graphics_GetFormat(image.cf),
        mipsToSkip |-> mipsToSkip,
        width |-> image.w \div Pow2(mipsToSkip),
        height |-> image.h \div Pow2(mipsToSkip)]

\* what SetData compares with layer 0's width_, height_ and format_
Negotiate(t, image, useAlpha, skip) ==
    LET n == IF image.cmp THEN NegotiateCmp(image, skip) ELSE NegotiateRaw(t, image, useAlpha, skip)
    IN <<n.width, n.height, n.format>>

\* variant: a layer above 0 is uploaded without the comparison with layer 0
SetDataRaw_NoMatchTest(t, layer, image, useAlpha, skip, glErr) ==
    LET n == NegotiateRaw(t, image, useAlpha, skip)
        components == n.components
        levelWidth == n.width
        levelHeight == n.height
        format == n.format
    IN IF layer = 0
       THEN LET a == IF IsCompressed(t) /\ t.requestedLevels_ > 1
                     THEN [t EXCEPT !.requestedLevels_ = 0] ELSE t
                b == SetSize(a, 0, levelWidth, levelHeight, format, "STATIC", glErr).t
            IN Ret(StoreMemoryUse(UploadRawLevels(b, layer, 0, levelWidth, levelHeight, components, 0),
                                  layer), TRUE)
       ELSE IF t.name_ = 0 THEN Ret(Log(t, "Texture array layer 0 must be loaded first"), FALSE)
       ELSE Ret(StoreMemoryUse(UploadRawLevels(t, layer, 0, levelWidth, levelHeight, components, 0),
                               layer), TRUE)

SetDataRaw(t, layer, image, useAlpha, skip, glErr) ==
    LET n == NegotiateRaw(t, image, useAlpha, skip)
        components == n.components
        levelWidth == n.width
        levelHeight == n.height
        format == n.format
    IN IF layer = 0
       THEN LET a == IF IsCompressed(t) /\ t.requestedLevels_ > 1
                     THEN [t EXCEPT !.requestedLevels_ = 0] ELSE t
                b == SetSize(a, 0, levelWidth, levelHeight, format, "STATIC", glErr).t
            IN Ret(StoreMemoryUse(UploadRawLevels(b, layer, 0, levelWidth, levelHeight, components, 0),
                                  layer), TRUE)
       ELSE IF t.name_ = 0 THEN Ret(Log(t, "Texture array layer 0 must be loaded first"), FALSE)
       ELSE IF levelWidth # t.width_ \/ levelHeight # t.height_ \/ format # t.format_
       THEN Ret(Log(t, "Texture array layer does not match size or format of layer 0"), FALSE)
       ELSE Ret(StoreMemoryUse(UploadRawLevels(t, layer, 0, levelWidth, levelHeight, components, 0),
                               layer), TRUE)

SetDataCmp(t, layer, image, skip, glErr) ==
    LET n == NegotiateCmp(image, skip)
        levels == image.levels
        needDecompress == n.needDecompress
        format == n.format
        mipsToSkip == n.mipsToSkip
        width == n.width
        height == n.height
    IN IF layer = 0
       THEN LET a == SetNumLevels(t, Max(levels - mipsToSkip, 1))
                b == SetSize(a, 0, width, height, format, "STATIC", glErr).t
            IN Ret(StoreMemoryUse(UploadCmpLevels(b, layer, 0, image, mipsToSkip, needDecompress, 0),
                                  layer), TRUE)
       ELSE IF t.name_ = 0 THEN Ret(Log(t, "Texture array layer 0 must be loaded first"), FALSE)
       ELSE IF width # t.width_ \/ height # t.height_ \/ format # t.format_
       THEN Ret(Log(t, "Texture array layer does not match size or format of layer 0"), FALSE)
       ELSE Ret(StoreMemoryUse(UploadCmpLevels(t, layer, 0, image, mipsToSkip, needDecompress, 0),
                               layer), TRUE)

SetDataImage(t, layer, image, useAlpha, skip, glErr) ==
    IF image.null THEN Ret(Log(t, "Null image, can not set data"), FALSE)
    ELSE IF t.layers_ = 0
    THEN Ret(Log(t, "Number of layers in the array must be set first"), FALSE)
    ELSE IF layer >= t.layers_ THEN Ret(Log(t, "Illegal layer for setting data"), FALSE)
    ELSE IF ~image.cmp THEN SetDataRaw(t, layer, image, useAlpha, skip, glErr)
    ELSE SetDataCmp(t, layer, image, skip, glErr)

(***************************************************************************)
(* Texture2DArray::GetData                                                 *)
(***************************************************************************)
GetData(t, layer, level, dest) ==
    IF t.name_ = 0 \/ ~t.graphics_
    THEN Ret(Log(t, "Texture array not created, can not get data"), FALSE)
    ELSE IF ~dest THEN Ret(Log(t, "Null destination for getting data"), FALSE)
    ELSE IF layer # 0
    THEN Ret(Log(t, "Only the full download of the array is supported, set layer=0"), FALSE)
    ELSE IF level >= t.levels_ THEN Ret(Log(t, "Illegal mip level for getting data"), FALSE)
    ELSE IF t.deviceLost THEN Ret(Log(t, "Getting texture data while device is lost"), FALSE)
    ELSE LET a == Graphics_SetTextureForUpdate(t)
             b == Call(a, GL(IF IsCompressed(a) THEN "glGetCompressedTexImage" ELSE "glGetTexImage",
                             layer, level))
         IN Ret(Graphics_SetTextureNull(b, 0), TRUE)

(***************************************************************************)
(* Asynchronous load.  A source is what the deserializer yields: a         *)
(* descriptor that parses (ok) with the images its layer names resolve to  *)
(* (NullImage where the cache finds none), or one that does not parse.     *)
(***************************************************************************)
\* images a descriptor's layer names resolve to
LayerImages == {RawImage(4, 4, 4), RawImage(8, 8, 4), NullImage}

RECURSIVE SeqsUpTo(_, _)
SeqsUpTo(S, n) ==
    IF n = 0 THEN {<<>>}
    ELSE LET shorter == SeqsUpTo(S, n - 1)
         IN shorter \cup {Append(q, x) : q \in {p \in shorter : Len(p) = n - 1}, x \in S}

Descriptor(q) == [found |-> TRUE, ok |-> TRUE, layers |-> q]
Malformed == [found |-> TRUE, ok |-> FALSE, layers |-> <<>>]
Sources == {Descriptor(q) : q \in SeqsUpTo(LayerImages, MaxLoadLayers)} \cup {Malformed}

\* variant: the descriptor is parsed before the headless test
BeginLoad_ParsesHeadless(t, source) ==
    IF t.graphics_ /\ t.deviceLost
    THEN Ret(Log([t EXCEPT !.dataPending_ = TRUE], "Texture load while device is lost"), TRUE)
    ELSE IF ~source.ok THEN Ret([t EXCEPT !.loadParameters_ = FALSE], FALSE)
    ELSE Ret([t EXCEPT !.loadParameters_ = TRUE, !.loadImages_ = source.layers], TRUE)

\* Texture2DArray::BeginLoad
BeginLoad(t, source) ==
    IF ~t.graphics_ THEN Ret(t, TRUE)
    ELSE IF t.deviceLost
    THEN Ret(Log([t EXCEPT !.dataPending_ = TRUE], "Texture load while device is lost"), TRUE)
    ELSE IF ~source.ok THEN Ret([t EXCEPT !.loadParameters_ = FALSE], FALSE)
    ELSE Ret([t EXCEPT !.loadParameters_ = TRUE, !.loadImages_ = source.layers], TRUE)

\* EndLoad: the loop SetData(i, loadImages_[i]) from layer i on; `uploads`
\* keeps what each call returned
KeepResult(r) == [r.t EXCEPT !.uploads = Append(@, r.ret)]

RECURSIVE UploadLayers(_, _, _, _)
UploadLayers(t, i, skip, glErr) ==
    IF i >= Len(t.loadImages_) THEN t
    ELSE UploadLayers(KeepResult(SetDataImage(t, i, t.loadImages_[i + 1], FALSE, skip, glErr)),
                      i + 1, skip, glErr)

\* Texture2DArray::EndLoad
EndLoad(t, skip, glErr) ==
    IF ~t.graphics_ \/ t.deviceLost THEN Ret(t, TRUE)
    ELSE Ret([UploadLayers(SetLayers(t, Len(t.loadImages_)), 0, skip, glErr)
                 EXCEPT !.loadImages_ = <<>>, !.loadParameters_ = FALSE], TRUE)

(***************************************************************************)
(* Device loss and reset.                                                  *)
(***************************************************************************)
\* GPUObject::OnDeviceLost: the context is gone and the handle with it; no
\* GPU call is made for it
GPUObject_OnDeviceLost(t) == [t EXCEPT !.name_ = 0, !.stored = {}]

\* Texture2DArray::OnDeviceLost
OnDeviceLost(t) ==
    LET a == GPUObject_OnDeviceLost(t)
    IN IF a.renderSurface_ THEN Call(a, GL("RenderSurface::OnDeviceLost", 0, 0)) ELSE a

\* ResourceCache::ReloadResource: open the resource's file and Load it
\* (BeginLoad, then EndLoad when that succeeded); NoFile is a file that
\* cannot be opened
NoFile == [found |-> FALSE, ok |-> FALSE, layers |-> <<>>]

Resource_Load(b, skip, glErr) == IF b.ret THEN EndLoad(b.t, skip, glErr) ELSE b

ReloadResource(t, file, skip, glErr) ==
    IF ~file.found THEN Ret(t, FALSE)
    ELSE Resource_Load(BeginLoad(t, file), skip, glErr)

\* dataLost_ = !cache->ReloadResource(this)
ReloadLost(l) == [l.t EXCEPT !.dataLost_ = ~l.ret]

\* if (!object_.name_) { Create(); dataLost_ = true; }
RecreateEmpty(r, glErr) ==
    IF r.name_ = 0 THEN [Create(r, glErr).t EXCEPT !.dataLost_ = TRUE] ELSE r

\* dataPending_ = false
ClearPending(a) == [a EXCEPT !.dataPending_ = FALSE]

\* variant: without the `if (!object_.name_) Create()`
OnDeviceReset_NoRecreate(t, exists, file, skip, glErr) ==
    IF t.name_ = 0 \/ t.dataPending_
    THEN IF exists
         THEN ClearPending(ReloadLost(ReloadResource(t, file, skip, glErr)))
         ELSE ClearPending(t)
    ELSE ClearPending(t)

\* Texture2DArray::OnDeviceReset; exists is cache->Exists(GetName())
OnDeviceReset(t, exists, file, skip, glErr) ==
    IF t.name_ = 0 \/ t.dataPending_
    THEN IF exists
         THEN ClearPending(RecreateEmpty(ReloadLost(ReloadResource(t, file, skip, glErr)), glErr))
         ELSE ClearPending(RecreateEmpty(t, glErr))
    ELSE ClearPending(t)

(***************************************************************************)
(* Initial state: the object after its constructor.  graphics_ is null in  *)
(* headless mode.                                                          *)
(***************************************************************************)
NewTexture(graphics) ==
    [graphics_ |-> graphics, deviceLost |-> FALSE, textures_ |-> {}, gl3 |-> TRUE,
     name_ |-> 0, width_ |-> 0, height_ |-> 0, format_ |-> "NONE", layers_ |-> 0,
     levels_ |-> 0, requestedLevels_ |-> 0, usage_ |-> "STATIC", renderSurface_ |-> FALSE,
     layerMemoryUse_ |-> <<>>, dataPending_ |-> FALSE, dataLost_ |-> FALSE,
     loadImages_ |-> <<>>, loadParameters_ |-> FALSE, stored |-> {}, calls |-> {}, log |-> {},
     ub |-> FALSE, uploads |-> <<>>]

\* mip is used by MipSpec alone
NoMip == [width |-> 0, height |-> 0, levels |-> 0, skip |-> 0, done |-> TRUE, mipsToSkip |-> 0]

Init ==
    /\ \E graphics \in BOOLEAN : tex = NewTexture(graphics)
    /\ mip = NoMip

(***************************************************************************)
(* Input domains of the operations.                                        *)
(***************************************************************************)
Layers == 0..MaxLayers
Skips == 0..MaxSkip
\* mip level arguments: the first two levels and one past the last of 8x8
LevelArgs == {0, 1, CountLevels(8)}
\* destination rectangles <<x, y, width, height>>
Rects == {<<0, 0, 8, 8>>, <<0, 0, 4, 4>>, <<2, 2, 4, 4>>, <<0, 0, 0, 4>>}
\* files ReloadResource can find behind the resource's name when the device
\* is reset
Files == {Descriptor(q) : q \in SeqsUpTo(LayerImages \ {NullImage}, MaxLayers)}
         \cup {Malformed, NoFile}

(***************************************************************************)
(* Operations.                                                             *)
(***************************************************************************)
SetSizeOp ==
    \E layers \in Layers, size \in SizeArgs, usage \in Usages, glErr \in BOOLEAN :
        /\ tex' = Obj(SetSize(tex, layers, size[1], size[2], "RGBA", usage, glErr).t)
        /\ UNCHANGED mip

SetLayersOp ==
    \E layers \in Layers :
        /\ tex' = Obj(SetLayers(tex, layers))
        /\ UNCHANGED mip

SetDataLevelOp ==
    \E layer \in Layers, level \in LevelArgs, rect \in Rects, data \in BOOLEAN :
        /\ tex' = Obj(SetDataLevel(tex, layer, level, rect[1], rect[2], rect[3], rect[4], data).t)
        /\ UNCHANGED mip

\* The compressed path dereferences graphics_, so it is run with a device
\* only.  What glGetError reports changes only what Create returns and
\* logs, which SetData, EndLoad and OnDeviceReset discard.
SetDataImageOp ==
    \E layer \in Layers, image \in Images, skip \in Skips :
    \E useAlpha \in IF image.comps = 1 THEN BOOLEAN ELSE {FALSE} :
        /\ image.cmp => tex.graphics_
        /\ tex' = Obj(SetDataImage(tex, layer, image, useAlpha, skip, FALSE).t)
        /\ UNCHANGED mip

GetDataOp ==
    \E layer \in {0, 1}, level \in LevelArgs, dest \in BOOLEAN :
        /\ tex' = Obj(GetData(tex, layer, level, dest).t)
        /\ UNCHANGED mip

ReleaseOp ==
    /\ tex' = Obj(Release(tex))
    /\ UNCHANGED mip

BeginLoadOp ==
    \E source \in Sources :
        /\ tex' = Obj(BeginLoad(tex, source).t)
        /\ UNCHANGED mip

EndLoadOp ==
    \E skip \in Skips :
        /\ tex' = Obj(EndLoad(tex, skip, FALSE).t)
        /\ UNCHANGED mip

\* Graphics loses its context
LoseDevice ==
    /\ tex.graphics_ /\ ~tex.deviceLost
    /\ tex' = [tex EXCEPT !.deviceLost = TRUE]
    /\ UNCHANGED mip

\* Graphics tells its GPU objects of the loss
OnDeviceLostOp ==
    /\ tex.graphics_ /\ tex.deviceLost
    /\ tex' = Obj(OnDeviceLost(tex))
    /\ UNCHANGED mip

\* Graphics has a context again and tells its GPU objects
OnDeviceResetOp ==
    \E exists \in BOOLEAN, skip \in Skips :
    \E file \in IF exists THEN Files ELSE {NoFile} :
        /\ tex.graphics_ /\ tex.deviceLost
        /\ tex' = Obj(OnDeviceReset([tex EXCEPT !.deviceLost = FALSE], exists, file, skip, FALSE))
        /\ UNCHANGED mip

\* the renderer binds the texture to a unit for drawing
SetTextureOp ==
    \E index \in Units :
        /\ tex.graphics_ /\ ~tex.deviceLost /\ tex.name_ # 0
        /\ tex' = [tex EXCEPT !.textures_ = @ \cup {index}]
        /\ UNCHANGED mip

\* the sizing and upload interface, with device loss and reset
Next ==
    \/ SetSizeOp
    \/ SetLayersOp
    \/ SetDataLevelOp
    \/ SetDataImageOp
    \/ GetDataOp
    \/ ReleaseOp
    \/ LoseDevice
    \/ OnDeviceLostOp
    \/ OnDeviceResetOp
    \/ SetTextureOp

Spec == Init /\ [][Next]_vars

\* the asynchronous load interface, with device loss and reset
LoadNext ==
    \/ BeginLoadOp
    \/ EndLoadOp
    \/ ReleaseOp
    \/ LoseDevice
    \/ OnDeviceLostOp
    \/ OnDeviceResetOp

LoadSpec == Init /\ [][LoadNext]_vars

(***************************************************************************)
(* The mip-skip clamp of the compressed path as a function of its inputs:  *)
(* an image of width x height with `levels` stored levels and the entry    *)
(* `skip` of the quality table.                                            *)
(***************************************************************************)
\* largest image edge
MipMaxDim == 16
\* largest number of stored levels
MipMaxLevels == 5
\* largest entry of the quality table
MipMaxSkip == 4

MipInit ==
    /\ tex = NewTexture(TRUE)
    /\ mip \in [width : 1..MipMaxDim, height : 1..MipMaxDim, levels : 1..MipMaxLevels,
                 skip : 0..MipMaxSkip, done : {FALSE}, mipsToSkip : {0}]

MipClamp ==
    /\ ~mip.done
    /\ mip' = [mip EXCEPT !.done = TRUE,
                          !.mipsToSkip = EffectiveSkip(mip.width, mip.height, mip.levels, mip.skip)]
    /\ UNCHANGED tex

MipNext == MipClamp

MipSpec == MipInit /\ [][MipNext]_vars

(***************************************************************************)
(* Properties.  A property of an operation is stated over every reachable  *)
(* object and every argument of the operation: the operation is applied    *)
(* to tex and its result r (r.t the object afterwards with the calls and   *)
(* log messages of the operation, r.ret what it returned) is examined.     *)
(***************************************************************************)
\* arguments of SetSize beyond those the SetSizeOp action takes
SizeFormats == {"RGBA", "DXT1"}

\* a GPU object exists and the device is usable
Live(t) == t.graphics_ /\ ~t.deviceLost

\* C1: on a live device, for an array that has been sized with at least two
\* layers and has no layer's base level uploaded yet, SetData(1, image)
\* fails with "layer 0 must be loaded first" for every image, whatever its
\* size and format.
C1_LayerZeroFirst ==
    (Live(tex) /\ tex.name_ # 0 /\ tex.layers_ >= 2 /\ tex.stored = {}) =>
        \A image \in Images \ {NullImage}, useAlpha \in BOOLEAN, skip \in Skips :
            LET r == SetDataImage(tex, 1, image, useAlpha, skip, FALSE)
            IN /\ ~r.ret
               /\ "Texture array layer 0 must be loaded first" \in r.t.log

\* the arguments of the per-level SetData are in range for the object
ValidLevelArgs(t, layer, level, rect) ==
    /\ layer < t.layers_
    /\ level < t.levels_
    /\ rect[1] >= 0 /\ rect[2] >= 0 /\ rect[3] > 0 /\ rect[4] > 0
    /\ rect[1] + rect[3] <= GetLevelDim(t, t.width_, level)
    /\ rect[2] + rect[4] <= GetLevelDim(t, t.height_, level)

\* the arguments of the image SetData are in range for the object
ValidImageArgs(t, layer, image, useAlpha, skip) ==
    /\ ~image.null
    /\ layer < t.layers_
    /\ layer > 0 => Negotiate(t, image, useAlpha, skip) = <<t.width_, t.height_, t.format_>>

\* C2: while the device is lost, SetData in both forms with otherwise valid
\* arguments returns true, leaves dataPending_ true and makes no GPU call,
\* whether or not the object still has its handle.
C2_LostUploadPends ==
    (tex.graphics_ /\ tex.deviceLost) =>
        /\ \A layer \in Layers, level \in LevelArgs, rect \in Rects :
               ValidLevelArgs(tex, layer, level, rect) =>
                   LET r == SetDataLevel(tex, layer, level, rect[1], rect[2], rect[3], rect[4], TRUE)
                   IN r.ret /\ r.t.dataPending_ /\ GPUCalls(r.t) = {}
        /\ \A layer \in Layers, image \in Images, useAlpha \in BOOLEAN, skip \in Skips :
               ValidImageArgs(tex, layer, image, useAlpha, skip) =>
                   LET r == SetDataImage(tex, layer, image, useAlpha, skip, FALSE)
                   IN r.ret /\ r.t.dataPending_ /\ GPUCalls(r.t) = {}

\* the object after OnDeviceReset in a state where the device was lost
AfterReset(exists, file, skip, glErr) ==
    OnDeviceReset([tex EXCEPT !.deviceLost = FALSE], exists, file, skip, glErr)

\* C3 as stated: after OnDeviceReset dataPending_ is false and the object
\* has a GPU handle, whatever its layer count, width and height.
C3_ResetAlwaysHandle ==
    (tex.graphics_ /\ tex.deviceLost) =>
        \A exists \in BOOLEAN, file \in Files, skip \in Skips, glErr \in BOOLEAN :
            LET a == AfterReset(exists, file, skip, glErr)
            IN ~a.dataPending_ /\ a.name_ # 0

\* C3: after OnDeviceReset dataPending_ is false, and the object has a GPU
\* handle whenever its width, height and layer count are all nonzero then.
C3_ResetHandleWhenSized ==
    (tex.graphics_ /\ tex.deviceLost) =>
        \A exists \in BOOLEAN, file \in Files, skip \in Skips, glErr \in BOOLEAN :
            LET a == AfterReset(exists, file, skip, glErr)
            IN /\ ~a.dataPending_
               /\ (a.width_ # 0 /\ a.height_ # 0 /\ a.layers_ # 0) => a.name_ # 0

\* a reset has recreated the object: the device is back, the handle exists,
\* nothing is pending and the content is reported lost
C3_Witness ==
    /\ Live(tex) /\ tex.name_ # 0 /\ ~tex.dataPending_ /\ tex.dataLost_
    /\ tex.stored = {}

\* C4 as stated: SetSize with width > 0, height > 0 and a usage other than
\* depth-stencil returns true and leaves width_, height_ and layers_ equal
\* to the arguments, for layers = 0 and from any prior state.
C4_SetSizeAlwaysSucceeds ==
    \A layers \in Layers, size \in SizeArgs, format \in SizeFormats,
       usage \in Usages, glErr \in BOOLEAN :
        (size[1] > 0 /\ size[2] > 0 /\ usage # "DEPTHSTENCIL") =>
            LET r == SetSize(tex, layers, size[1], size[2], format, usage, glErr)
            IN /\ r.ret
               /\ r.t.width_ = size[1] /\ r.t.height_ = size[2]
               /\ r.t.layers_ = layers

\* C4: SetSize with width > 0, height > 0 and a usage other than
\* depth-stencil leaves width_ and height_ equal to the arguments and
\* layers_ equal to `layers` when that is nonzero, unchanged when it is 0;
\* it returns true exactly when the object has a graphics device, layers_
\* is then nonzero and, on a live device with an uncompressed format, the
\* allocation raised no GPU error.
C4_SetSizeValid ==
    \A layers \in Layers, size \in SizeArgs, format \in SizeFormats,
       usage \in Usages, glErr \in BOOLEAN :
        (size[1] > 0 /\ size[2] > 0 /\ usage # "DEPTHSTENCIL") =>
            LET r == SetSize(tex, layers, size[1], size[2], format, usage, glErr)
            IN /\ r.t.width_ = size[1] /\ r.t.height_ = size[2]
               /\ r.t.layers_ = IF layers # 0 THEN layers ELSE tex.layers_
               /\ r.ret <=> /\ tex.graphics_
                            /\ r.t.layers_ # 0
                            /\ tex.deviceLost \/ format \in CompressedFormats \/ ~glErr

\* an 8x8 render-target array of MaxLayers layers exists (only SetSize
\* makes one), and sizing it again with layers = 0 succeeds and keeps the
\* layer count
C4_Witness ==
    /\ Live(tex) /\ tex.name_ # 0 /\ tex.renderSurface_
    /\ tex.width_ = 8 /\ tex.height_ = 8 /\ tex.layers_ = MaxLayers
    /\ LET r == SetSize(tex, 0, 4, 4, "RGBA", "STATIC", FALSE)
       IN r.ret /\ r.t.layers_ = MaxLayers /\ r.t.width_ = 4 /\ r.t.name_ # 0

\* C5: SetSize with width <= 0, height <= 0 or depth-stencil usage returns
\* false, changes no field of the object and makes no GPU call.
C5_SetSizeInvalid ==
    \A layers \in Layers, size \in SizeArgs, format \in SizeFormats,
       usage \in Usages, glErr \in BOOLEAN :
        (size[1] <= 0 \/ size[2] <= 0 \/ usage = "DEPTHSTENCIL") =>
            LET r == SetSize(tex, layers, size[1], size[2], format, usage, glErr)
            IN ~r.ret /\ Obj(r.t) = tex /\ GPUCalls(r.t) = {}

\* a render-target array with a handle, on which a zero width, a negative
\* height and depth-stencil usage are each refused
C5_Witness ==
    /\ Live(tex) /\ tex.name_ # 0 /\ tex.renderSurface_ /\ tex.layers_ = MaxLayers
    /\ ~SetSize(tex, 1, 0, 4, "RGBA", "STATIC", FALSE).ret
    /\ ~SetSize(tex, 1, 4, -4, "RGBA", "STATIC", FALSE).ret
    /\ ~SetSize(tex, 1, 4, 4, "RGBA", "DEPTHSTENCIL", FALSE).ret

\* C6: once layer 0 is uploaded, SetData(k, image) with k > 0 and an image
\* whose negotiated width, height or format differs from layer 0's returns
\* false and changes nothing: no field of the object (the per-layer
\* counters among them), no memory total reported, no GPU call.
C6_MismatchRejected ==
    (0 \in tex.stored) =>
        \A k \in 1..MaxLayers, image \in Images \ {NullImage}, useAlpha \in BOOLEAN,
           skip \in Skips, glErr \in BOOLEAN :
            (tex.graphics_ /\ Negotiate(tex, image, useAlpha, skip) # <<tex.width_, tex.height_, tex.format_>>) =>
                LET r == SetDataImage(tex, k, image, useAlpha, skip, glErr)
                IN ~r.ret /\ Obj(r.t) = tex /\ r.t.calls = {}

\* layer 0 of a two-layer 4x4 RGBA array is uploaded, layer 1 is not, and
\* an 8x8 image for layer 1 is refused as not matching
C6_Witness ==
    /\ Live(tex) /\ 0 \in tex.stored /\ 1 \notin tex.stored /\ tex.layers_ = 2
    /\ tex.width_ = 4 /\ tex.format_ = "RGBA" /\ tex.layerMemoryUse_[1] > 0
    /\ LET r == SetDataImage(tex, 1, RawImage(8, 8, 4), FALSE, 0, FALSE)
       IN /\ ~r.ret
          /\ "Texture array layer does not match size or format of layer 0" \in r.t.log

\* layer `layer` received texels during the operation that produced t
Uploaded(t, layer) ==
    \E c \in t.calls : c[1] \in {"glTexSubImage3D", "glCompressedTexSubImage3D"} /\ c[2] = layer

\* C7: in EndLoad on a live device, when the upload of layer k fails no
\* layer above k is uploaded and EndLoad returns false; EndLoad returns
\* true only when every layer was uploaded.
C7_EndLoadStopsAtFailure ==
    Live(tex) =>
        \A skip \in Skips :
            LET r == EndLoad(tex, skip, FALSE)
                u == r.t.uploads
            IN /\ \A k \in 1..Len(u) :
                      ~u[k] => /\ ~r.ret
                               /\ \A j \in k..(Len(u) - 1) : ~Uploaded(r.t, j)
               /\ r.ret => \A k \in 1..Len(u) : u[k]

\* C8: Release is idempotent: a second Release changes nothing and makes no
\* call; without a handle or without a graphics device Release changes
\* nothing and makes no call; after Release the object has no handle.
C8_ReleaseIdempotent ==
    LET r == Release(tex)
        again == Release(Obj(r))
    IN /\ again = Obj(r)
       /\ (tex.name_ = 0 \/ ~tex.graphics_) => r = tex
       /\ r.name_ = 0

\* an object with a handle on a live device: Release deletes the GPU
\* object, clears the handle, and a second Release does nothing
C8_Witness ==
    /\ Live(tex) /\ tex.name_ # 0
    /\ LET r == Release(tex)
       IN /\ GL("glDeleteTextures", 0, 0) \in r.calls
          /\ r.name_ = 0
          /\ Release(Obj(r)) = Obj(r)

\* width and height of the level e of a compressed image are at least 4
BlockFits(width, height, e) == width \div Pow2(e) >= 4 /\ height \div Pow2(e) >= 4

BoundForUpdate(t) == GL("glBindTexture", 0, 1) \in t.calls

\* C10: every operation that binds the texture for update (creation,
\* per-level upload, readback, and the operations that call them) leaves
\* texture unit 0 with no texture when it returns, on every path.
C10_UnboundAfterUpdate ==
    /\ \A glErr \in BOOLEAN :
           LET r == Create(tex, glErr) IN BoundForUpdate(r.t) => 0 \notin r.t.textures_
    /\ \A layers \in Layers, size \in SizeArgs, usage \in Usages, glErr \in BOOLEAN :
           LET r == SetSize(tex, layers, size[1], size[2], "RGBA", usage, glErr)
           IN BoundForUpdate(r.t) => 0 \notin r.t.textures_
    /\ \A layer \in Layers, level \in LevelArgs, rect \in Rects, data \in BOOLEAN :
           LET r == SetDataLevel(tex, layer, level, rect[1], rect[2], rect[3], rect[4], data)
           IN BoundForUpdate(r.t) => 0 \notin r.t.textures_
    /\ \A layer \in Layers, image \in Images, skip \in Skips :
           (image.cmp => tex.graphics_) =>
               LET r == SetDataImage(tex, layer, image, FALSE, skip, FALSE)
               IN BoundForUpdate(r.t) => 0 \notin r.t.textures_
    /\ \A layer \in Layers, level \in LevelArgs, dest \in BOOLEAN :
           LET r == GetData(tex, layer, level, dest)
           IN BoundForUpdate(r.t) => 0 \notin r.t.textures_
    /\ (tex.graphics_ /\ tex.deviceLost) =>
           \A exists \in BOOLEAN, file \in Files, skip \in Skips :
               LET a == AfterReset(exists, file, skip, FALSE)
               IN BoundForUpdate(a) => 0 \notin a.textures_

\* the renderer has the texture on unit 0, and a per-level upload binds it
\* for update, uploads and returns with unit 0 unbound
C10_Witness ==
    /\ Live(tex) /\ tex.name_ # 0 /\ 0 \in tex.textures_
    /\ LET r == SetDataLevel(tex, 0, 0, 0, 0, tex.width_, tex.height_, TRUE)
       IN r.ret /\ BoundForUpdate(r.t) /\ 0 \notin r.t.textures_

\* C11 as stated: BeginLoad on an object without a graphics device returns
\* true, makes no GPU call and keeps the parsed descriptor (loadParameters_
\* and the layer images) in the object.
C11_HeadlessKeepsDescriptor ==
    ~tex.graphics_ =>
        \A source \in Sources :
            source.ok =>
                LET r == BeginLoad(tex, source)
                IN /\ r.ret /\ GPUCalls(r.t) = {}
                   /\ r.t.loadParameters_ /\ r.t.loadImages_ = source.layers

\* C11: BeginLoad on an object without a graphics device returns true,
\* makes no call and leaves the object as it was: the descriptor is not
\* parsed and nothing of it is kept.
C11_HeadlessNoOp ==
    ~tex.graphics_ =>
        \A source \in Sources :
            LET r == BeginLoad(tex, source)
            IN r.ret /\ r.t.calls = {} /\ Obj(r.t) = tex

\* a headless object on which BeginLoad of a two-layer descriptor succeeds
\* and keeps no layer image
C11_Witness ==
    /\ ~tex.graphics_
    /\ LET r == BeginLoad(tex, Descriptor(<<RawImage(4, 4, 4), RawImage(4, 4, 4)>>))
       IN r.ret /\ r.t.loadImages_ = <<>> /\ ~r.t.loadParameters_

\* descriptors whose layers are all the same loadable image
UniformSources == {Descriptor(<<RawImage(4, 4, 4)>>),
                   Descriptor(<<RawImage(4, 4, 4), RawImage(4, 4, 4)>>)}

\* EndLoad once the device is back (with or without the reset handler
\* having run in between, which finds no file for the resource)
FinalizeAfterLoss(t, handled, skip) ==
    EndLoad(IF handled THEN Obj(OnDeviceReset([t EXCEPT !.deviceLost = FALSE], FALSE, NoFile, skip, FALSE))
            ELSE [t EXCEPT !.deviceLost = FALSE],
            skip, FALSE)

\* C12: BeginLoad while the device is lost sets dataPending_, returns true
\* and makes no GPU call, and once the device is back the following EndLoad
\* sets layers_ to the number of layers of that descriptor and uploads
\* them; it never leaves the object with no handle and zero layers.
C12_LostParseFinalizedLater ==
    (tex.graphics_ /\ tex.deviceLost) =>
        \A source \in UniformSources :
            LET b == BeginLoad(tex, source)
            IN /\ b.ret /\ b.t.dataPending_ /\ GPUCalls(b.t) = {}
               /\ \A handled \in BOOLEAN, skip \in Skips :
                      LET e == FinalizeAfterLoss(Obj(b.t), handled, skip).t
                      IN /\ e.layers_ = Len(source.layers)
                         /\ \A j \in 0..(Len(source.layers) - 1) : Uploaded(e, j)
                         /\ ~(e.name_ = 0 /\ e.layers_ = 0)

(***************************************************************************)
(* The mip level count Create computes, over every size up to LevelMaxDim: *)
(* SetSize with no level count requested, on a live device.                *)
(***************************************************************************)
\* largest width and height
LevelMaxDim == 16

SizeAnyOp ==
    \E layers \in 1..MaxLayers, width \in 1..LevelMaxDim, height \in 1..LevelMaxDim :
        /\ tex' = Obj(SetSize(tex, layers, width, height, "RGBA", "STATIC", FALSE).t)
        /\ UNCHANGED mip

CreateInit ==
    /\ tex = NewTexture(TRUE)
    /\ mip = NoMip

CreateNext == SizeAnyOp

CreateSpec == CreateInit /\ [][CreateNext]_vars

\* floor(log2(n)) and ceil(log2(n)) for n >= 1
FloorLog2(n) == CHOOSE k \in 0..n : Pow2(k) <= n /\ n < Pow2(k + 1)
CeilLog2(n) == CHOOSE k \in 0..n : n <= Pow2(k) /\ (k = 0 \/ Pow2(k - 1) < n)

\* C13 as stated: after Create on a live device with requestedLevels_ = 0,
\* levels_ = ceil(log2(max(width_, height_))) + 1 for every width and
\* height >= 1.
C13_LevelsCeilLog2 ==
    (tex.name_ # 0 /\ tex.requestedLevels_ = 0) =>
        tex.levels_ = CeilLog2(Max(tex.width_, tex.height_)) + 1

\* C13: after Create on a live device with requestedLevels_ = 0, levels_ =
\* floor(log2(max(width_, height_))) + 1 for every width and height >= 1.
C13_LevelsFloorLog2 ==
    (tex.name_ # 0 /\ tex.requestedLevels_ = 0) =>
        tex.levels_ = FloorLog2(Max(tex.width_, tex.height_)) + 1

\* a 5x3 array was created and has 3 levels (5, 2, 1)
C13_Witness ==
    /\ tex.name_ # 0 /\ tex.requestedLevels_ = 0
    /\ tex.width_ = 5 /\ tex.height_ = 3 /\ tex.levels_ = 3

\* the mip levels of `layer` that received texels during the operation
\* that produced t
UploadedLevels(t, layer) ==
    {c[3] : c \in {d \in t.calls : /\ d[1] \in {"glTexSubImage3D", "glCompressedTexSubImage3D"}
                                   /\ d[2] = layer}}

\* C14: once layer 0 is uploaded, every SetData(k, image) with k > 0 that
\* succeeds gives layer k the width, height, format and number of mip
\* levels layer 0 established; an image that yields another number of
\* mip levels is rejected.
C14_LayersShareLevelCount ==
    (Live(tex) /\ 0 \in tex.stored) =>
        \A k \in 1..MaxLayers, image \in Images \ {NullImage}, useAlpha \in BOOLEAN, skip \in Skips :
            LET r == SetDataImage(tex, k, image, useAlpha, skip, FALSE)
            IN r.ret =>
                   /\ Negotiate(tex, image, useAlpha, skip) = <<tex.width_, tex.height_, tex.format_>>
                   /\ Cardinality(UploadedLevels(r.t, k)) = tex.levels_

\* the whole-level allocations and the sub-region updates among the calls
\* of the operation that produced t
Allocations(t) == {c \in t.calls : c[1] \in {"glTexImage3D", "glCompressedTexImage3D"}}
SubUpdates(t) == {c \in t.calls : c[1] \in {"glTexSubImage3D", "glCompressedTexSubImage3D"}}

\* the rectangle, as SetData aligns it, covers the whole of `level`
WholeLevelRect(t, level, rect) ==
    /\ (IF IsCompressed(t) THEN AlignDown4(rect[1]) ELSE rect[1]) = 0
    /\ (IF IsCompressed(t) THEN AlignDown4(rect[2]) ELSE rect[2]) = 0
    /\ rect[3] = GetLevelDim(t, t.width_, level)
    /\ rect[4] = GetLevelDim(t, t.height_, level)

\* C15 as stated: a per-level SetData issues the whole-level allocation
\* only for level 0 of layer 0, and no upload re-establishes the storage of
\* a layer other than the one addressed.
C15_AllocationOnlyFirstLevel ==
    \A layer \in Layers, level \in LevelArgs, rect \in Rects :
        LET r == SetDataLevel(tex, layer, level, rect[1], rect[2], rect[3], rect[4], TRUE)
        IN /\ Allocations(r.t) # {} => (layer = 0 /\ level = 0)
           /\ tex.stored \ {layer} \subseteq r.t.stored

\* C15: a per-level SetData issues the whole-level allocation exactly when
\* it uploads to layer 0 a rectangle that covers the whole level, at any
\* mip level and on every such upload; that allocation re-establishes the
\* level for all layers.  Every upload that reaches the GPU issues one
\* sub-region update, restricted to its own layer and level, and an upload
\* without the allocation leaves the other layers as they were.
C15_AllocationForWholeLevelOfLayerZero ==
    \A layer \in Layers, level \in LevelArgs, rect \in Rects, data \in BOOLEAN :
        LET r == SetDataLevel(tex, layer, level, rect[1], rect[2], rect[3], rect[4], data)
            done == r.ret /\ Live(tex)
        IN /\ Allocations(r.t) # {} <=> (done /\ layer = 0 /\ WholeLevelRect(tex, level, rect))
           /\ \A c \in Allocations(r.t) : c[2] = 0 /\ c[3] = level
           /\ (Allocations(r.t) # {} /\ level = 0) => r.t.stored = {0}
           /\ Allocations(r.t) = {} => tex.stored \subseteq r.t.stored
           /\ Cardinality(SubUpdates(r.t)) = IF done THEN 1 ELSE 0
           /\ \A c \in SubUpdates(r.t) : c[2] = layer /\ c[3] = level

\* an 8x8 array with layer 1 uploaded: a whole-level upload to level 1 of
\* layer 0 issues the allocation, the same upload to layer 1 does not
C15_Witness ==
    /\ Live(tex) /\ tex.name_ # 0 /\ tex.width_ = 8 /\ tex.layers_ = 2 /\ 1 \in tex.stored
    /\ GL("glTexImage3D", 0, 1) \in SetDataLevel(tex, 0, 1, 0, 0, 4, 4, TRUE).t.calls
    /\ LET r == SetDataLevel(tex, 1, 1, 0, 0, 4, 4, TRUE)
       IN r.ret /\ Allocations(r.t) = {} /\ SubUpdates(r.t) = {GL("glTexSubImage3D", 1, 1)}

\* C16: on a live device, when the handle exists and every layer
\* 0..layers_-1 has been uploaded since the handle was created, both
\* dataPending_ and dataLost_ are false.
C16_FlagsClearedWhenContentPresent ==
    (Live(tex) /\ tex.name_ # 0 /\ tex.layers_ > 0 /\ tex.stored = 0..(tex.layers_ - 1)) =>
        (~tex.dataPending_ /\ ~tex.dataLost_)

\* the reset that produced a reloaded the content from the resource's file:
\* the cache has the file, it parses, and each of its layers was uploaded
Reloaded(a, exists, file) ==
    /\ exists /\ file.found /\ file.ok
    /\ \A j \in 0..(Len(file.layers) - 1) : Uploaded(a, j)

\* C17: when dataPending_ is true as OnDeviceReset runs, then at its end
\* either the content was reloaded through the resource cache or dataLost_
\* is true, also for an object without a file in the cache that still has
\* its handle.
C17_PendingRetriedOrLost ==
    (tex.graphics_ /\ tex.deviceLost /\ tex.dataPending_) =>
        \A exists \in BOOLEAN, skip \in Skips :
            \A file \in IF exists THEN Files ELSE {NoFile} :
                LET a == AfterReset(exists, file, skip, FALSE)
                IN Reloaded(a, exists, file) \/ a.dataLost_

\* the number of mip levels of an uncompressed image, down to 1x1
ImageLevels(image) == CountLevels(Max(image.w, image.h))

\* C18: for every uncompressed image given to SetData the number of
\* leading mip levels skipped is at most the image's level count minus one,
\* and the first level kept is at least 4x4 unless no level is skipped,
\* whatever the quality table asks for.
C18_RawSkipClamped ==
    (Live(tex) /\ tex.layers_ > 0) =>
        \A image \in RawImages, useAlpha \in BOOLEAN, skip \in Skips :
            LET n == NegotiateRaw(tex, image, useAlpha, skip)
                r == SetDataImage(tex, 0, image, useAlpha, skip, FALSE)
            IN r.ret =>
                   /\ r.t.width_ = n.width /\ r.t.height_ = n.height
                   /\ n.skipped <= ImageLevels(image) - 1
                   /\ n.skipped = 0 \/ (r.t.width_ >= 4 /\ r.t.height_ >= 4)

\* C19: whenever the handle exists, layerMemoryUse_ has exactly layers_
\* entries and width_, height_ and layers_ are nonzero, so SetData(layer,
\* image) never indexes layerMemoryUse_ outside the vector.
C19_CountersMatchLayers ==
    /\ tex.name_ # 0 =>
           /\ Len(tex.layerMemoryUse_) = tex.layers_
           /\ tex.width_ # 0 /\ tex.height_ # 0 /\ tex.layers_ # 0
    /\ \A layer \in Layers, image \in RawImages, skip \in Skips :
           ~SetDataImage(tex, layer, image, FALSE, skip, FALSE).t.ub

\* an operation started while the device was lost made no GPU call and
\* left no handle that was not there before
QuietWhileLost(t) == GPUCalls(t) = {} /\ (t.name_ # 0 => tex.name_ # 0)

\* C20: while the device is lost no operation (SetSize, Create, Release,
\* SetLayers, both SetData forms, GetData, BeginLoad, EndLoad) makes a GPU
\* call or leaves a newly allocated handle; an object without a graphics
\* device never has a handle.
C20_NoGPUCallWhileLost ==
    /\ ~tex.graphics_ => tex.name_ = 0
    /\ (tex.graphics_ /\ tex.deviceLost) =>
        /\ \A layers \in Layers, size \in SizeArgs, format \in SizeFormats,
              usage \in Usages, glErr \in BOOLEAN :
               QuietWhileLost(SetSize(tex, layers, size[1], size[2], format, usage, glErr).t)
        /\ \A glErr \in BOOLEAN : QuietWhileLost(Create(tex, glErr).t)
        /\ QuietWhileLost(Release(tex))
        /\ \A layers \in Layers : QuietWhileLost(SetLayers(tex, layers))
        /\ \A layer \in Layers, level \in LevelArgs, rect \in Rects, data \in BOOLEAN :
               QuietWhileLost(SetDataLevel(tex, layer, level, rect[1], rect[2], rect[3], rect[4], data).t)
        /\ \A layer \in Layers, image \in Images, useAlpha \in BOOLEAN, skip \in Skips :
               QuietWhileLost(SetDataImage(tex, layer, image, useAlpha, skip, FALSE).t)
        /\ \A layer \in Layers, level \in LevelArgs, dest \in BOOLEAN :
               QuietWhileLost(GetData(tex, layer, level, dest).t)
        /\ \A source \in UniformSources \cup {Malformed} : QuietWhileLost(BeginLoad(tex, source).t)
        /\ \A skip \in Skips : QuietWhileLost(EndLoad(tex, skip, FALSE).t)

\* the device is lost and the object still has its handle: SetSize reports
\* success, makes no GPU call and leaves no handle, and a per-level upload
\* is deferred
C20_Witness ==
    /\ tex.graphics_ /\ tex.deviceLost /\ tex.name_ # 0 /\ tex.width_ = 4
    /\ LET r == SetSize(tex, 1, 8, 8, "RGBA", "STATIC", FALSE)
       IN r.ret /\ r.t.name_ = 0 /\ GPUCalls(r.t) = {}
    /\ LET r == SetDataLevel(tex, 0, 0, 0, 0, 4, 4, TRUE)
       IN r.ret /\ r.t.dataPending_ /\ GPUCalls(r.t) = {}
====
